---- MODULE Spec2Model ----
(***************************************************************************)
(* Model of TriblerGUI/widgets/trustgraphpage.py: the polling / animation  *)
(* scheduling of TrustGraphPage and the position interpolation of          *)
(* TrustAnimationCanvas.                                                   *)
(*                                                                         *)
(* Every Qt callback (showEvent, hideEvent, a timer's timeout slot, the    *)
(* request manager's reply callback) runs to completion on the one GUI     *)
(* event loop, so each is one atomic action.                               *)
(*                                                                         *)
(* Time is counted in clock ticks, Granularity ticks per                   *)
(* REFRESH_INTERVAL_MS.  A timer holds the ticks left until it is due      *)
(* (Off when it is not running); time passes only while no timer is due,   *)
(* and timers due at the same tick fire in any order.                      *)
(*                                                                         *)
(* showEvent and hideEvent need not alternate (Qt also sends spontaneous    *)
(* ones), and neither handler looks at the widget's visibility.            *)
(*                                                                         *)
(* The animation timer is started with start(0): that sets its interval to *)
(* 0, so once armed it is due at every turn of the event loop.             *)
(*                                                                         *)
(* A QTimer created without a parent is owned by its Python wrapper, so    *)
(* re-binding the attribute that holds it destroys (stops) the old timer:  *)
(* each timer attribute is one timer.                                      *)
(*                                                                         *)
(* Coordinates are fixed-point numbers in units of 1/MAX_FRAMES, so that   *)
(* the interpolation at progress k/MAX_FRAMES is exact; a position is a    *)
(* record [x, y, kind], kind telling a JSON list [x, y] of the payload     *)
(* from a tuple (x, y) written by compute_node_positions (in Python a list *)
(* never equals a tuple).                                                  *)
(***************************************************************************)
EXTENDS Integers, Sequences, FiniteSets, TLC

\* ------------------------------------------------------------ constants
REFRESH_INTERVAL_MS == 1000
TIMEOUT_INTERVAL_MS == 5000
MAX_FRAMES == 3

\* Clock ticks per REFRESH_INTERVAL_MS (the resolution of the model's clock).
Granularity == 2

\* Number of node ids a payload may mention.
NumNodes == 2

\* ------------------------------------------------------------ data
\* Python's None / a present value, as a sequence of length 0 / 1.
None == <<>>
Some(v) == <<v>>
IsNone(o) == o = <<>>
Val(o) == o[1]

\* A timer that is not running.
Off == -1

\* 1.0 as a fixed-point coordinate.
One == MAX_FRAMES

Nodes == 1..NumNodes
\* The peer's own node (data['node_id']).
SelfNode == 1

List(x, y) == [x |-> x, y |-> y, kind |-> "list"]
Tuple(x, y) == [x |-> x, y |-> y, kind |-> "tuple"]

\* A dict is a function whose DOMAIN is the key set.
Keys(m) == DOMAIN m
\* d[k] = v for every k of ks (existing keys overwritten, missing ones added).
SetAll(d, ks, v) == [n \in (DOMAIN d) \cup ks |-> IF n \in ks THEN v ELSE d[n]]

Min(a, b) == IF a < b THEN a ELSE b

\* Timer intervals in clock ticks.
Ms2Ticks(ms) == (ms * Granularity) \div REFRESH_INTERVAL_MS
\* Ages of fetch_data_last_update above this one all pass the guard alike.
Stale == Granularity + 1

\* ------------------------------------------------------------ TrustAnimationCanvas

\* One axis of line 85/86: ((target - old) * move_fraction) + old, with
\* move_fraction = num / den.
Interpolate(t, o, num, den) == (((t - o) * num) \div den) + o

\* compute_node_positions taking an absent old_pos for an empty dict: every node is
\* interpolated from the anchor instead of being placed at its target.
compute_node_positions_NoneAsEmpty(graph, target_pos, old_pos, num, den) ==
  LET tgt1 == SetAll(target_pos, IF IsNone(old_pos) THEN {} ELSE Keys(target_pos), Tuple(0, 0))
      tgt2 == SetAll(tgt1, graph \ Keys(tgt1), Tuple(0, 0))
      old2 == [n \in graph |-> Tuple(0, One)]
  IN [actual |-> [n \in graph |->
                    <<Interpolate(tgt2[n].x, old2[n].x, num, den),
                      Interpolate(tgt2[n].y, old2[n].y, num, den)>>],
      target_pos |-> tgt2,
      old_pos |-> Some(old2),
      raised |-> FALSE]

\* compute_node_positions(graph, target_pos, old_pos, move_fraction): the returned
\* actual_pos, and target_pos and old_pos as the call leaves them (both are the
\* caller's dicts, written in place).  raised: the call ends in a KeyError.
compute_node_positions(graph, target_pos, old_pos, num, den) ==
  IF IsNone(old_pos)
  THEN [actual |-> [n \in graph \cap Keys(target_pos) |->
                      <<target_pos[n].x, target_pos[n].y>>],
        target_pos |-> target_pos,
        old_pos |-> old_pos,
        raised |-> ~(graph \subseteq Keys(target_pos))]
  ELSE LET old0 == Val(old_pos)
           \* lines 74-75
           old1 == SetAll(old0, Keys(old0) \ Keys(target_pos), Tuple(One, 0))
           \* lines 76-77
           tgt1 == SetAll(target_pos, Keys(target_pos) \ Keys(old1), Tuple(0, 0))
           \* lines 81-84, for every n of graph.node
           tgt2 == SetAll(tgt1, graph \ Keys(tgt1), Tuple(0, 0))
           old2 == SetAll(old1, graph \ Keys(old1), Tuple(0, One))
       IN [actual |-> [n \in graph |->
                         <<Interpolate(tgt2[n].x, old2[n].x, num, den),
                           Interpolate(tgt2[n].y, old2[n].y, num, den)>>],
           target_pos |-> tgt2,
           old_pos |-> Some(old2),
           raised |-> FALSE]

\* update_canvas(graph, node_id, pos, old_pos, edge_list, frame_count, max_frames):
\* drawn tells whether draw_graph was reached; pos and old_pos as the call leaves them.
update_canvas(graph, pos, old_pos, frame_count, max_frames) ==
  IF IsNone(graph) \/ Val(graph) = {} \/ frame_count = 0
  THEN [drawn |-> FALSE, positions |-> None, pos |-> pos, old_pos |-> old_pos,
        raised |-> FALSE]
  ELSE LET \* move_frame_fraction = 1 - (frame_count - 1) / (1.0 * max_frames)
           r == compute_node_positions(Val(graph), pos, old_pos,
                                       max_frames - (frame_count - 1), max_frames)
       IN [drawn |-> ~r.raised, positions |-> Some(r.actual), pos |-> r.target_pos,
           old_pos |-> r.old_pos, raised |-> r.raised]

\* ------------------------------------------------------------ TrustGraphPage

\* should_update_graph without the comparison of the two lengths (lines 209-210).
should_update_graph_NoLengthCheck(old_pos, new_pos) ==
  IF IsNone(old_pos) \/ Keys(Val(old_pos)) = {} THEN TRUE
  ELSE \E node_id \in Keys(new_pos) :
          \/ node_id \notin Keys(Val(old_pos))
          \/ Val(old_pos)[node_id] # new_pos[node_id]

\* should_update_graph(old_pos, new_pos); "not old_pos" holds of None and of {}.
should_update_graph(old_pos, new_pos) ==
  IF IsNone(old_pos) \/ Keys(Val(old_pos)) = {} THEN TRUE
  ELSE IF Cardinality(Keys(Val(old_pos))) # Cardinality(Keys(new_pos)) THEN TRUE
  ELSE \E node_id \in Keys(new_pos) :
          \/ node_id \notin Keys(Val(old_pos))
          \/ Val(old_pos)[node_id] # new_pos[node_id]

\* ------------------------------------------------------------ state
VARIABLES
  visible,                  \* the widget is shown (last of showEvent / hideEvent)
  fetch_data_timer,         \* ticks until fetch_graph_data is due, or Off
  fetch_data_timeout_timer, \* ticks until on_fetch_data_request_timeout is due, or Off
  last_update_age,          \* time.time() - fetch_data_last_update in ticks, capped at Stale
  reply,                    \* the request of graph_request_mgr: none, pending, done, cancelled
  orphans,                  \* requests still outstanding on request managers since replaced
  graph,                    \* None or the node set of self.graph
  edges,                    \* None or self.edges
  pos,                      \* None or self.pos
  old_pos,                  \* None or self.old_pos
  node_id,                  \* None or self.node_id
  animation_timer,          \* none (None), stopped or active (interval 0, repeating)
  animation_frame,
  error,                    \* a handler raised an exception
  ev,                       \* the handler that ran last, with its outcome (received_restart:
                            \* a changed snapshot arrived while the animation was running)
  calls,                    \* the request manager calls of the last handler, in order
  rendered,                 \* the frame_count of each frame drawn since the animation was armed
  drawn,                    \* None or the node positions the last handler drew
  delivered,                \* None or data['positions'] of the last payload, as it arrived
  completed_age,            \* ticks since the last reply arrived, capped at
                            \* Ms2Ticks(REFRESH_INTERVAL_MS); Off before the first reply
  issued_age,               \* ticks since the last request was issued, capped at Stale
  leaked,                   \* animation timers still running that animation_timer no longer holds
  args,                     \* the arguments of a function applied on its own
  result                    \* and what it returned

poll == <<fetch_data_timer, fetch_data_timeout_timer>>
requests == <<reply, orphans>>
snapshot == <<graph, edges, pos, old_pos, node_id>>
animation == <<animation_timer, animation_frame>>
applied == <<args, result>>
history == <<delivered, completed_age, issued_age>>
vars == <<visible, poll, last_update_age, requests, snapshot, animation, error, ev,
          calls, rendered, applied, drawn, history, leaked>>

\* ------------------------------------------------------------ payloads
\* The coordinates a payload gives a node.
PayloadPoints == {List(0, 0), List(One, One)}
\* The node sets of a payload's graph: empty, or holding the peer's own node.
PayloadGraphs == {g \in SUBSET Nodes : g = {} \/ SelfNode \in g}
\* The trust edges of a payload: from the own node to every other node.
PayloadEdges(g) == {<<SelfNode, n>> : n \in g \ {SelfNode}}
\* Well-formed payloads: 'positions' has a coordinate for exactly the graph's nodes.
Payloads ==
  UNION {{[graph |-> g, edges |-> PayloadEdges(g), positions |-> p, node_id |-> SelfNode] :
            p \in [g -> PayloadPoints]} : g \in PayloadGraphs}

\* ------------------------------------------------------------ request manager
\* TriblerRequestManager.cancel_request(): an outstanding request is dropped, its
\* callback never runs; cancelling anything else is a no-op.
cancel_request(r) == IF r = "pending" THEN "cancelled" ELSE r
\* A call of the request manager, and the state its request was in.
Call(op, was) == [op |-> op, was |-> was]
\* The requests whose reply is still to come.
Outstanding == (IF reply = "pending" THEN 1 ELSE 0) + orphans

\* ------------------------------------------------------------ operations
\* TrustGraphPage.__init__()
Constructed ==
  /\ visible = FALSE
  /\ fetch_data_timer = Off
  /\ fetch_data_timeout_timer = Off
  /\ last_update_age = Stale
  /\ reply = "none"
  /\ orphans = 0
  /\ graph = None
  /\ edges = None
  /\ pos = None
  /\ old_pos = None
  /\ node_id = None
  /\ animation_timer = "none"
  /\ animation_frame = 0
  /\ error = FALSE
  /\ ev = "init"
  /\ calls = <<>>
  /\ rendered = <<>>
  /\ drawn = None
  /\ delivered = None
  /\ completed_age = Off
  /\ issued_age = Stale
  /\ leaked = 0

Init ==
  /\ Constructed
  /\ args = None
  /\ result = None

\* schedule_fetch_data_timer(now) starting the fetch-delay timer only.
schedule_fetch_data_timer_NoTimeout(now) ==
  /\ fetch_data_timer' = (IF now THEN 0 ELSE Ms2Ticks(REFRESH_INTERVAL_MS))
  /\ fetch_data_timeout_timer' = fetch_data_timeout_timer

\* schedule_fetch_data_timer(now): both timers are created anew and started.
schedule_fetch_data_timer(now) ==
  /\ fetch_data_timer' = (IF now THEN 0 ELSE Ms2Ticks(REFRESH_INTERVAL_MS))
  /\ fetch_data_timeout_timer' = Ms2Ticks(TIMEOUT_INTERVAL_MS)

\* stop_fetch_data_request() without the "if self.animation_timer" guard: stop() is
\* called on None while no animation timer exists yet.
stop_fetch_data_request_NoGuard ==
  /\ fetch_data_timer' = Off
  /\ fetch_data_timeout_timer' = Off
  /\ animation_timer' = (IF animation_timer = "none" THEN "none" ELSE "stopped")
  /\ error' = (error \/ animation_timer = "none")

\* stop_fetch_data_request()
stop_fetch_data_request ==
  /\ fetch_data_timer' = Off
  /\ fetch_data_timeout_timer' = Off
  /\ animation_timer' = (IF animation_timer = "none" THEN "none" ELSE "stopped")
  /\ error' = error

showEvent ==
  /\ schedule_fetch_data_timer(TRUE)
  /\ visible' = TRUE
  /\ ev' = "show"
  /\ calls' = <<>>
  /\ UNCHANGED <<last_update_age, requests, snapshot, animation, error, rendered, applied>>
  /\ drawn' = None
  /\ UNCHANGED <<history, leaked>>

hideEvent ==
  /\ stop_fetch_data_request
  /\ visible' = FALSE
  /\ ev' = "hide"
  /\ calls' = <<>>
  /\ UNCHANGED <<last_update_age, requests, snapshot, animation_frame, rendered, applied>>
  /\ drawn' = None
  /\ UNCHANGED <<history, leaked>>

\* on_fetch_data_request_timeout() rescheduling with now=True.
on_fetch_data_request_timeout_Immediate ==
  /\ fetch_data_timeout_timer = 0
  /\ reply' = cancel_request(reply)
  /\ schedule_fetch_data_timer(TRUE)
  /\ ev' = "timeout"
  /\ calls' = <<Call("cancel", reply)>>
  /\ UNCHANGED <<visible, last_update_age, orphans, snapshot, animation, error, rendered,
                 applied>>
  /\ drawn' = None
  /\ UNCHANGED <<history, leaked>>

\* on_fetch_data_request_timeout() cancelling the request without rescheduling.
on_fetch_data_request_timeout_NoReschedule ==
  /\ fetch_data_timeout_timer = 0
  /\ reply' = cancel_request(reply)
  /\ fetch_data_timeout_timer' = Off
  /\ UNCHANGED fetch_data_timer
  /\ ev' = "timeout"
  /\ calls' = <<Call("cancel", reply)>>
  /\ UNCHANGED <<visible, last_update_age, orphans, snapshot, animation, error, rendered,
                 applied>>
  /\ drawn' = None
  /\ UNCHANGED <<history, leaked>>

\* The timeout timer is due: on_fetch_data_request_timeout()
on_fetch_data_request_timeout ==
  /\ fetch_data_timeout_timer = 0
  /\ reply' = cancel_request(reply)
  /\ schedule_fetch_data_timer(FALSE)
  /\ ev' = "timeout"
  /\ calls' = <<Call("cancel", reply)>>
  /\ UNCHANGED <<visible, last_update_age, orphans, snapshot, animation, error, rendered,
                 applied>>
  /\ drawn' = None
  /\ UNCHANGED <<history, leaked>>

\* fetch_graph_data() without the cancel_request() of line 183.
fetch_graph_data_NoCancel ==
  /\ fetch_data_timer = 0
  /\ fetch_data_timer' = Off
  /\ IF last_update_age > Ms2Ticks(REFRESH_INTERVAL_MS)
     THEN /\ last_update_age' = 0
          /\ orphans' = orphans + (IF reply = "pending" THEN 1 ELSE 0)
          /\ reply' = "pending"
          /\ ev' = "fetch"
          /\ issued_age' = 0
          /\ calls' = <<Call("perform", "none")>>
     ELSE /\ UNCHANGED <<last_update_age, requests, issued_age>>
          /\ ev' = "fetch_skipped"
          /\ calls' = <<>>
  /\ UNCHANGED <<visible, fetch_data_timeout_timer, snapshot, animation, error, rendered,
                 applied>>
  /\ drawn' = None
  /\ UNCHANGED <<delivered, completed_age, leaked>>

\* fetch_graph_data() with the guard of line 181 relaxed to >=.
fetch_graph_data_AtLeast ==
  /\ fetch_data_timer = 0
  /\ fetch_data_timer' = Off
  /\ IF last_update_age >= Ms2Ticks(REFRESH_INTERVAL_MS)
     THEN /\ last_update_age' = 0
          \* the cancelled manager is replaced by a new one, which performs the request
          /\ orphans' = orphans + (IF cancel_request(reply) = "pending" THEN 1 ELSE 0)
          /\ reply' = "pending"
          /\ ev' = "fetch"
          /\ issued_age' = 0
          /\ calls' = <<Call("cancel", reply), Call("perform", "none")>>
     ELSE /\ UNCHANGED <<last_update_age, requests, issued_age>>
          /\ ev' = "fetch_skipped"
          /\ calls' = <<>>
  /\ UNCHANGED <<visible, fetch_data_timeout_timer, snapshot, animation, error, rendered,
                 applied>>
  /\ drawn' = None
  /\ UNCHANGED <<delivered, completed_age, leaked>>

\* The single-shot fetch timer is due: fetch_graph_data()
fetch_graph_data ==
  /\ fetch_data_timer = 0
  /\ fetch_data_timer' = Off
  /\ IF last_update_age > Ms2Ticks(REFRESH_INTERVAL_MS)
     THEN /\ last_update_age' = 0
          \* the cancelled manager is replaced by a new one, which performs the request
          /\ orphans' = orphans + (IF cancel_request(reply) = "pending" THEN 1 ELSE 0)
          /\ reply' = "pending"
          /\ ev' = "fetch"
          /\ issued_age' = 0
          /\ calls' = <<Call("cancel", reply), Call("perform", "none")>>
     ELSE /\ UNCHANGED <<last_update_age, requests, issued_age>>
          /\ ev' = "fetch_skipped"
          /\ calls' = <<>>
  /\ UNCHANGED <<visible, fetch_data_timeout_timer, snapshot, animation, error, rendered,
                 applied>>
  /\ drawn' = None
  /\ UNCHANGED <<delivered, completed_age, leaked>>

\* on_received_data(data) rescheduling the poll when data is None.
on_received_data_RescheduleOnNone(data) ==
  /\ calls' = <<>>
  /\ drawn' = None
  /\ completed_age' = 0
  /\ UNCHANGED <<visible, last_update_age, error, applied, issued_age>>
  /\ IF IsNone(data)
     THEN /\ ev' = "received_none"
          /\ schedule_fetch_data_timer(FALSE)
          /\ UNCHANGED <<snapshot, animation, rendered, delivered, leaked>>
     ELSE LET d == Val(data)
              copy == IF IsNone(pos) THEN None ELSE pos
          IN /\ graph' = Some(d.graph)
             /\ old_pos' = copy
             /\ pos' = Some(d.positions)
             /\ edges' = Some(d.edges)
             /\ node_id' = Some(d.node_id)
             /\ delivered' = Some(d.positions)
             /\ UNCHANGED poll
             /\ IF ~should_update_graph(copy, d.positions)
                THEN /\ ev' = "received_unchanged"
                     /\ UNCHANGED <<animation, rendered, leaked>>
                ELSE /\ animation_frame' = MAX_FRAMES
                     /\ animation_timer' = "active"
                     /\ rendered' = <<>>
                     /\ ev' = (IF animation_timer = "active" THEN "received_restart"
                                                           ELSE "received_changed")
                     \* line 201 drops the last reference to the old timer: it is destroyed
                     /\ leaked' = leaked

\* on_received_data(data) rescheduling the poll as soon as it arms the animation.
on_received_data_RescheduleOnChanged(data) ==
  /\ calls' = <<>>
  /\ drawn' = None
  /\ completed_age' = 0
  /\ UNCHANGED <<visible, last_update_age, error, applied, issued_age>>
  /\ IF IsNone(data)
     THEN /\ ev' = "received_none"
          /\ UNCHANGED poll
          /\ UNCHANGED <<snapshot, animation, rendered, delivered, leaked>>
     ELSE LET d == Val(data)
              copy == IF IsNone(pos) THEN None ELSE pos
          IN /\ graph' = Some(d.graph)
             /\ old_pos' = copy
             /\ pos' = Some(d.positions)
             /\ edges' = Some(d.edges)
             /\ node_id' = Some(d.node_id)
             /\ delivered' = Some(d.positions)
             /\ IF ~should_update_graph(copy, d.positions)
                THEN /\ ev' = "received_unchanged"
                     /\ UNCHANGED poll
                     /\ UNCHANGED <<animation, rendered, leaked>>
                ELSE /\ animation_frame' = MAX_FRAMES
                     /\ schedule_fetch_data_timer(FALSE)
                     /\ animation_timer' = "active"
                     /\ rendered' = <<>>
                     /\ ev' = (IF animation_timer = "active" THEN "received_restart"
                                                           ELSE "received_changed")
                     \* line 201 drops the last reference to the old timer: it is destroyed
                     /\ leaked' = leaked

\* on_received_data(data) where the timer replaced at line 201 keeps running.
on_received_data_KeepOldTimer(data) ==
  /\ calls' = <<>>
  /\ drawn' = None
  /\ completed_age' = 0
  /\ UNCHANGED <<visible, poll, last_update_age, error, applied, issued_age>>
  /\ IF IsNone(data)
     THEN /\ ev' = "received_none"
          /\ UNCHANGED <<snapshot, animation, rendered, delivered, leaked>>
     ELSE LET d == Val(data)
              copy == IF IsNone(pos) THEN None ELSE pos
          IN /\ graph' = Some(d.graph)
             /\ old_pos' = copy
             /\ pos' = Some(d.positions)
             /\ edges' = Some(d.edges)
             /\ node_id' = Some(d.node_id)
             /\ delivered' = Some(d.positions)
             /\ IF ~should_update_graph(copy, d.positions)
                THEN /\ ev' = "received_unchanged"
                     /\ UNCHANGED <<animation, rendered, leaked>>
                ELSE /\ animation_frame' = MAX_FRAMES
                     /\ animation_timer' = "active"
                     /\ rendered' = <<>>
                     /\ ev' = (IF animation_timer = "active" THEN "received_restart"
                                                           ELSE "received_changed")
                     /\ leaked' = leaked + (IF animation_timer = "active" THEN 1 ELSE 0)

\* on_received_data(data), data None or a payload
on_received_data(data) ==
  /\ calls' = <<>>
  /\ drawn' = None
  /\ completed_age' = 0
  /\ UNCHANGED <<visible, poll, last_update_age, error, applied, issued_age>>
  /\ IF IsNone(data)
     THEN /\ ev' = "received_none"
          /\ UNCHANGED <<snapshot, animation, rendered, delivered, leaked>>
     ELSE LET d == Val(data)
              copy == IF IsNone(pos) THEN None ELSE pos
          IN /\ graph' = Some(d.graph)
             /\ old_pos' = copy
             /\ pos' = Some(d.positions)
             /\ edges' = Some(d.edges)
             /\ node_id' = Some(d.node_id)
             /\ delivered' = Some(d.positions)
             /\ IF ~should_update_graph(copy, d.positions)
                THEN /\ ev' = "received_unchanged"
                     /\ UNCHANGED <<animation, rendered, leaked>>
                ELSE /\ animation_frame' = MAX_FRAMES
                     /\ animation_timer' = "active"
                     /\ rendered' = <<>>
                     /\ ev' = (IF animation_timer = "active" THEN "received_restart"
                                                           ELSE "received_changed")
                     \* line 201 drops the last reference to the old timer: it is destroyed
                     /\ leaked' = leaked

\* The reply of an outstanding request arrives and its callback runs, with no data
\* or with one of payloads.
ReplyOf(payloads) ==
  /\ \/ /\ reply = "pending"
        /\ reply' = "done"
        /\ UNCHANGED orphans
     \/ /\ orphans > 0
        /\ orphans' = orphans - 1
        /\ UNCHANGED reply
  /\ \E data \in {None} \cup {Some(d) : d \in payloads} : on_received_data(data)
Reply == ReplyOf(Payloads)

\* update_graph() drawing the frame before it decrements the counter.
update_graph_DrawThenDecrement ==
  /\ animation_timer = "active" \/ leaked > 0
  /\ calls' = <<>>
  /\ IF animation_frame # 0
     THEN LET c == update_canvas(graph, Val(pos), old_pos, animation_frame, MAX_FRAMES)
          IN /\ animation_frame' = animation_frame - 1
             /\ pos' = Some(c.pos)
             /\ old_pos' = c.old_pos
             /\ rendered' = (IF c.drawn THEN Append(rendered, animation_frame) ELSE rendered)
             /\ error' = (error \/ c.raised)
             /\ ev' = (IF c.drawn THEN "frame_rendered" ELSE "frame_skipped")
             /\ drawn' = (IF c.drawn THEN c.positions ELSE None)
             /\ UNCHANGED <<poll, animation_timer>>
     ELSE /\ animation_timer' = "stopped"
          /\ drawn' = None
          /\ schedule_fetch_data_timer(FALSE)
          /\ ev' = "animation_done"
          /\ UNCHANGED <<animation_frame, pos, old_pos, rendered, error>>
  /\ UNCHANGED <<visible, last_update_age, requests, graph, edges, node_id, applied,
                 history, leaked>>

\* update_graph() without the animation_timer.stop() of line 224.
update_graph_NoStop ==
  /\ animation_timer = "active" \/ leaked > 0
  /\ animation_frame' = animation_frame - 1
  /\ calls' = <<>>
  /\ IF animation_frame' # 0
     THEN LET c == update_canvas(graph, Val(pos), old_pos, animation_frame', MAX_FRAMES)
          IN /\ pos' = Some(c.pos)
             /\ old_pos' = c.old_pos
             /\ rendered' = (IF c.drawn THEN Append(rendered, animation_frame') ELSE rendered)
             /\ error' = (error \/ c.raised)
             /\ ev' = (IF c.drawn THEN "frame_rendered" ELSE "frame_skipped")
             /\ drawn' = (IF c.drawn THEN c.positions ELSE None)
             /\ UNCHANGED <<poll, animation_timer>>
     ELSE /\ UNCHANGED animation_timer
          /\ drawn' = None
          /\ schedule_fetch_data_timer(FALSE)
          /\ ev' = "animation_done"
          /\ UNCHANGED <<pos, old_pos, rendered, error>>
  /\ UNCHANGED <<visible, last_update_age, requests, graph, edges, node_id, applied,
                 history, leaked>>

\* The animation timer is due: update_graph()
update_graph ==
  /\ animation_timer = "active" \/ leaked > 0
  /\ animation_frame' = animation_frame - 1
  /\ calls' = <<>>
  /\ IF animation_frame' # 0
     THEN LET c == update_canvas(graph, Val(pos), old_pos, animation_frame', MAX_FRAMES)
          IN /\ pos' = Some(c.pos)
             /\ old_pos' = c.old_pos
             /\ rendered' = (IF c.drawn THEN Append(rendered, animation_frame') ELSE rendered)
             /\ error' = (error \/ c.raised)
             /\ ev' = (IF c.drawn THEN "frame_rendered" ELSE "frame_skipped")
             /\ drawn' = (IF c.drawn THEN c.positions ELSE None)
             /\ UNCHANGED <<poll, animation_timer>>
     ELSE /\ animation_timer' = "stopped"
          /\ drawn' = None
          /\ schedule_fetch_data_timer(FALSE)
          /\ ev' = "animation_done"
          /\ UNCHANGED <<pos, old_pos, rendered, error>>
  /\ UNCHANGED <<visible, last_update_age, requests, graph, edges, node_id, applied,
                 history, leaked>>

\* One clock tick passes; no timer is due.
Elapse(t) == IF t = Off THEN Off ELSE t - 1
Tick ==
  /\ fetch_data_timer # 0
  /\ fetch_data_timeout_timer # 0
  /\ animation_timer # "active"
  /\ leaked = 0
  /\ fetch_data_timer' = Elapse(fetch_data_timer)
  /\ fetch_data_timeout_timer' = Elapse(fetch_data_timeout_timer)
  /\ last_update_age' = Min(last_update_age + 1, Stale)
  /\ completed_age' = (IF completed_age = Off THEN Off
                        ELSE Min(completed_age + 1, Ms2Ticks(REFRESH_INTERVAL_MS)))
  /\ issued_age' = Min(issued_age + 1, Stale)
  /\ ev' = "tick"
  /\ calls' = <<>>
  /\ drawn' = None
  /\ UNCHANGED <<visible, requests, snapshot, animation, error, rendered, applied,
                 delivered, leaked>>

Next ==
  \/ showEvent
  \/ hideEvent
  \/ fetch_graph_data
  \/ on_fetch_data_request_timeout
  \/ Reply
  \/ update_graph
  \/ Tick

Spec == Init /\ [][Next]_vars

\* The page polling a trust graph that holds at most the user's own node; the event
\* loop runs the slot of every timer that is due, and time passes.
SelfPayloads == {d \in Payloads : d.graph \subseteq {SelfNode}}
ReplySelf == ReplyOf(SelfPayloads)
LiveNext ==
  \/ showEvent
  \/ hideEvent
  \/ fetch_graph_data
  \/ on_fetch_data_request_timeout
  \/ ReplySelf
  \/ update_graph
  \/ Tick
LiveSpec ==
  /\ Init
  /\ [][LiveNext]_vars
  /\ WF_vars(fetch_graph_data)
  /\ WF_vars(on_fetch_data_request_timeout)
  /\ WF_vars(update_graph)
  /\ SF_vars(Tick)

\* ------------------------------------------------------------ functions on their own
\* The position maps over the node ids, with values in points.
Maps(points) == UNION {[ks -> points] : ks \in SUBSET Nodes}
OptMaps(points) == {None} \cup {Some(m) : m \in Maps(points)}

\* should_update_graph applied to every pair of bounded position maps; the values
\* are JSON lists of a payload and tuples written by compute_node_positions.
ComparePoints == {List(0, 0), List(One, One), Tuple(0, 0), Tuple(One, 0)}
InitCompare ==
  /\ Constructed
  /\ args \in {Some([old_pos |-> o, new_pos |-> n]) :
                 o \in OptMaps(ComparePoints), n \in Maps(ComparePoints)}
  /\ result = None
apply_should_update_graph ==
  /\ ~IsNone(args)
  /\ IsNone(result)
  /\ result' = Some(should_update_graph(Val(args).old_pos, Val(args).new_pos))
  /\ UNCHANGED <<visible, poll, last_update_age, requests, snapshot, animation, error, ev,
                 calls, rendered, args, drawn, history, leaked>>
NextCompare == apply_should_update_graph
SpecCompare == InitCompare /\ [][NextCompare]_vars

\* compute_node_positions applied to every bounded graph, pair of position maps and
\* move fraction num / MAX_FRAMES.
PositionPoints == {List(0, 0), List(One, 0), List(One, One)}
InitPositions ==
  /\ Constructed
  /\ args \in {Some([graph |-> g, target_pos |-> t, old_pos |-> o, num |-> k]) :
                 g \in SUBSET Nodes, t \in Maps(PositionPoints),
                 o \in OptMaps(PositionPoints), k \in 0..MAX_FRAMES}
  /\ result = None
apply_compute_node_positions ==
  /\ ~IsNone(args)
  /\ IsNone(result)
  /\ result' = Some(compute_node_positions(Val(args).graph, Val(args).target_pos,
                                           Val(args).old_pos, Val(args).num, MAX_FRAMES))
  /\ UNCHANGED <<visible, poll, last_update_age, requests, snapshot, animation, error, ev,
                 calls, rendered, args, drawn, history, leaked>>
NextPositions == apply_compute_node_positions
SpecPositions == InitPositions /\ [][NextPositions]_vars

\* ------------------------------------------------------------ properties
\* The frame_count values of a whole animation: MAX_FRAMES - 1 down to 1.
Frames == [i \in 1..(MAX_FRAMES - 1) |-> MAX_FRAMES - i]
PollRestarted ==
  /\ fetch_data_timer = Ms2Ticks(REFRESH_INTERVAL_MS)
  /\ fetch_data_timer # 0
  /\ fetch_data_timeout_timer = Ms2Ticks(TIMEOUT_INTERVAL_MS)

\* C1: at most one fetch request is outstanding in every reachable state, and a
\* handler that issues a request has called cancel_request() first, then
\* perform_request(), and nothing else.
C1_AtMostOneFetch ==
  /\ Outstanding <= 1
  /\ (\E i \in DOMAIN calls : calls[i].op = "perform")
       => /\ Len(calls) = 2
          /\ calls[1].op = "cancel"
          /\ calls[2].op = "perform"
\* A fetch was issued while the previous request was still outstanding.
C1_Witness ==
  /\ ev = "fetch"
  /\ calls[1] = Call("cancel", "pending")
  /\ Outstanding = 1

\* C2: after on_received_data handled a payload whose snapshot is unchanged, the
\* handler has restarted the poll timers (fetch-delay timer running, timeout timer
\* at its full interval).
C2_UnchangedReschedules ==
  (ev = "received_unchanged")
    => /\ fetch_data_timer # Off
       /\ fetch_data_timeout_timer = Ms2Ticks(TIMEOUT_INTERVAL_MS)

\* C3: while the widget is hidden no timer is armed, no request is outstanding, no
\* fetch is issued and no frame is rendered.
C3_HiddenIsIdle ==
  (~visible)
    => /\ fetch_data_timer = Off
       /\ fetch_data_timeout_timer = Off
       /\ animation_timer # "active"
       /\ Outstanding = 0
       /\ ev \notin {"fetch", "frame_rendered"}

\* C4: right after the timeout handler ran, no request is outstanding, the
\* fetch-delay timer holds the full REFRESH_INTERVAL_MS (not 0) and the timeout
\* timer holds TIMEOUT_INTERVAL_MS, whatever state the request was in.
C4_TimeoutReschedules ==
  (ev = "timeout")
    => /\ Outstanding = 0
       /\ Len(calls) = 1
       /\ calls[1].op = "cancel"
       /\ PollRestarted
\* The timeout fired while the request was outstanding, and cancelled it.
C4_Witness ==
  /\ ev = "timeout"
  /\ calls = <<Call("cancel", "pending")>>
  /\ reply = "cancelled"

C6_NullPayloadNoOp ==
  [][(ev' = "received_none")
       => UNCHANGED <<graph, edges, pos, old_pos, node_id, animation_frame,
                      animation_timer, fetch_data_timer, fetch_data_timeout_timer,
                      error, rendered>>]_vars
\* A null payload arrived while the timeout timer was armed: that timer will
\* trigger the next poll.
C6_Witness ==
  /\ ev = "received_none"
  /\ fetch_data_timeout_timer > 0
  /\ fetch_data_timer = Off
  /\ ~error

\* C7: right after stop_fetch_data_request ran (hideEvent), none of the three timers
\* is running and no exception was raised, in whatever state it was called.
C7_StopIsSafe ==
  (ev = "hide")
    => /\ fetch_data_timer = Off
       /\ fetch_data_timeout_timer = Off
       /\ animation_timer # "active"
       /\ ~error
\* stop_fetch_data_request ran before any animation timer was created.
C7_Witness ==
  /\ ev = "hide"
  /\ animation_timer = "none"
  /\ ~error

\* C8: for a node of the graph that target_pos has and old_pos lacks, the returned
\* position is the interpolation from the anchor (0.0, 1.0) to the node's given
\* target; for a node that old_pos has and target_pos lacks, it is the
\* interpolation from the node's given previous position to the anchor (0.0, 0.0).
C8_MissingNodeAnchoring ==
  (~IsNone(args) /\ ~IsNone(result) /\ ~IsNone(Val(args).old_pos))
    => LET a == Val(args)
           t == a.target_pos
           o == Val(a.old_pos)
           actual == Val(result).actual
       IN \A n \in a.graph :
            /\ (n \in Keys(t) /\ n \notin Keys(o))
                 => actual[n] = <<Interpolate(t[n].x, 0, a.num, MAX_FRAMES),
                                  Interpolate(t[n].y, One, a.num, MAX_FRAMES)>>
            /\ (n \in Keys(o) /\ n \notin Keys(t))
                 => actual[n] = <<Interpolate(0, o[n].x, a.num, MAX_FRAMES),
                                  Interpolate(0, o[n].y, a.num, MAX_FRAMES)>>

\* C9: should_update_graph(P, P) is False for every position map P, the empty map
\* included.
C9_ComparatorStable ==
  (~IsNone(args) /\ ~IsNone(result) /\ Val(args).old_pos = Some(Val(args).new_pos))
    => Val(result) = FALSE

\* Two position maps differ: in the number of node ids, by a node id of new that
\* old lacks, or in a coordinate of a node id both have.
Differ(old, new) ==
  \/ Cardinality(Keys(old)) # Cardinality(Keys(new))
  \/ \E n \in Keys(new) : n \notin Keys(old)
  \/ \E n \in Keys(new) \cap Keys(old) : old[n].x # new[n].x \/ old[n].y # new[n].y
\* C10: should_update_graph(old, new) is True whenever old is absent and whenever
\* old and new differ.
C10_NoMissedChange ==
  (~IsNone(args) /\ ~IsNone(result))
    => LET a == Val(args)
       IN (IsNone(a.old_pos) \/ Differ(Val(a.old_pos), a.new_pos)) => Val(result) = TRUE
\* A change of one coordinate between two maps with the same, non-empty key set
\* was reported.
C10_Witness ==
  /\ ~IsNone(args)
  /\ ~IsNone(result)
  /\ ~IsNone(Val(args).old_pos)
  /\ Keys(Val(Val(args).old_pos)) = Keys(Val(args).new_pos)
  /\ Keys(Val(args).new_pos) # {}
  /\ \E n \in Keys(Val(args).new_pos) : Val(Val(args).old_pos)[n].x # Val(args).new_pos[n].x
  /\ Val(result) = TRUE

C12_InputsNotMutated ==
  (~IsNone(args) /\ ~IsNone(result))
    => /\ Val(result).target_pos = Val(args).target_pos
       /\ Val(result).old_pos = Val(args).old_pos

\* A step starts a poll timer: the timer shows more time left than before the step.
Rearmed ==
  \/ fetch_data_timer' > fetch_data_timer
  \/ fetch_data_timeout_timer' > fetch_data_timeout_timer
\* on_received_data armed the animation.
ReceivedChanged == {"received_changed", "received_restart"}
\* The animation timers that are running: the current one and the replaced ones.
ActiveAnimations == (IF animation_timer = "active" THEN 1 ELSE 0) + leaked

\* C13: after a successful fetch has armed an animation the poll scheduler is not
\* re-armed before the animation's final tick: while the animation is running, no
\* fetch-delay elapse, timeout elapse or fetch issue starts a poll timer.
C13_NoRearmWhileAnimating ==
  [][(animation_timer = "active" /\ ev' \in {"timeout", "fetch", "fetch_skipped"})
       => ~Rearmed]_vars
\* C13, amended: on_received_data arms the animation without starting a poll timer,
\* and a step that starts a poll timer while the animation keeps running is a
\* timeout elapse or a showEvent.
C13_RearmOnlyByTimeoutOrShow ==
  [][(animation_timer' = "active" /\ Rearmed) => ev' \in {"timeout", "show"}]_vars
\* The timeout timer armed with the last schedule elapsed during an animation.
C13_Witness ==
  /\ ev = "timeout"
  /\ animation_timer = "active"
  /\ animation_frame \in 1..MAX_FRAMES
  /\ PollRestarted

\* C14: the last frame an animation renders (frame_count 1) draws every node of the
\* current graph at the coordinates the payload delivered for it.
C14_FinalFrameAtPayload ==
  (ev = "frame_rendered" /\ animation_frame = 1 /\ ~IsNone(drawn))
    => \A n \in Val(graph) :
         /\ n \in Keys(Val(drawn))
         /\ n \in Keys(Val(delivered))
         /\ Val(drawn)[n] = <<Val(delivered)[n].x, Val(delivered)[n].y>>

\* C15: a non-null payload that repeats the non-empty position map of the previous
\* non-null payload never arms the animation, whatever happened in between.
C15_RepeatedPayloadUnchanged ==
  [][(/\ ev' \in ReceivedChanged \cup {"received_unchanged"}
      /\ ~IsNone(delivered)
      /\ delivered' = delivered
      /\ Keys(Val(delivered)) # {})
       => ev' = "received_unchanged"]_vars

\* C16: at most one animation timer is running; a changed snapshot arms the
\* animation with the frame counter at MAX_FRAMES and no frame rendered, also when
\* it replaces a running animation; after the completion tick none is running.
C16_OneAnimation ==
  /\ ActiveAnimations <= 1
  /\ ev \in ReceivedChanged
       => /\ ActiveAnimations = 1
          /\ animation_frame = MAX_FRAMES
          /\ rendered = <<>>
  /\ ev = "animation_done"
       => /\ ActiveAnimations = 0
          /\ animation_frame = 0
\* A changed snapshot arrived while the animation was running.
C16_Witness ==
  /\ ev = "received_restart"
  /\ animation_timer = "active"
  /\ animation_frame = MAX_FRAMES

\* The outcomes of a fetch: changed snapshot, unchanged snapshot, null payload,
\* timeout, and a fetch-delay elapse whose guard rejected the fetch.
FetchOutcome ==
  ev \in ReceivedChanged \cup {"received_unchanged", "received_none", "timeout", "fetch_skipped"}

\* C17: while the widget stays visible, every fetch outcome is eventually followed
\* by the issue of a new fetch, when due timers fire and time passes.
C17_PollingNeverStalls == (visible /\ FetchOutcome) ~> (ev = "fetch" \/ ~visible)
\* A fetch was issued after null payloads only: the timeout restarted the poll.
C17_Witness ==
  /\ ev = "fetch"
  /\ visible
  /\ calls[1] = Call("cancel", "done")
  /\ animation_timer = "none"

\* C18: on fetch-delay elapse a fetch is issued if and only if at least
\* REFRESH_INTERVAL_MS has passed since the last fetch completed.
C18_IssuedIffCompletedLongAgo ==
  (ev \in {"fetch", "fetch_skipped"} /\ completed_age # Off)
    => ((ev = "fetch") <=> (completed_age >= Ms2Ticks(REFRESH_INTERVAL_MS)))
\* C18, amended: on fetch-delay elapse a fetch is issued if and only if more than
\* REFRESH_INTERVAL_MS has passed since the last fetch was issued; when the guard
\* rejects, nothing is cancelled or issued and the timestamp is unchanged.
C18_IssuedIffIssuedLongAgo ==
  [][(ev' \in {"fetch", "fetch_skipped"})
       => /\ (ev' = "fetch") <=> (issued_age > Ms2Ticks(REFRESH_INTERVAL_MS))
          /\ ev' = "fetch" => last_update_age' = 0
          /\ ev' = "fetch_skipped"
               => /\ calls' = <<>>
                  /\ UNCHANGED <<requests, last_update_age>>]_vars
\* The guard rejected a fetch exactly REFRESH_INTERVAL_MS after the last one was
\* issued, its reply having arrived at once.
C18_Witness ==
  /\ ev = "fetch_skipped"
  /\ issued_age = Ms2Ticks(REFRESH_INTERVAL_MS)
  /\ completed_age = Ms2Ticks(REFRESH_INTERVAL_MS)

\* C19: animation_frame stays in 0..MAX_FRAMES; it decreases only by an animation
\* tick, by exactly 1; it increases only by arming an animation, to MAX_FRAMES; no
\* animation tick runs while it is 0.
C19_FrameCounter ==
  /\ [](animation_frame \in 0..MAX_FRAMES)
  /\ [][/\ animation_frame' < animation_frame
             => /\ ev' \in {"frame_rendered", "frame_skipped", "animation_done"}
                /\ animation_frame' = animation_frame - 1
        /\ animation_frame' > animation_frame
             => /\ ev' \in ReceivedChanged
                /\ animation_frame' = MAX_FRAMES
        /\ ev' \in {"frame_rendered", "frame_skipped", "animation_done"}
             => animation_frame > 0]_vars
\* A second animation was armed after the first one ran down to 0 and stopped.
C19_Witness ==
  /\ ev = "frame_rendered"
  /\ animation_frame = MAX_FRAMES - 1
  /\ animation_timer = "active"
  /\ fetch_data_timer # Off

\* C20: the timeout timer is armed whenever the fetch-delay timer is, with at least
\* as much time left; every schedule arms it at TIMEOUT_INTERVAL_MS; a timeout that
\* finds no request outstanding cancels nothing and restarts the poll.
C20_TimeoutPaired ==
  /\ fetch_data_timer # Off
       => /\ fetch_data_timeout_timer # Off
          /\ fetch_data_timeout_timer >= fetch_data_timer
  /\ ev \in {"show", "timeout", "animation_done"}
       => fetch_data_timeout_timer = Ms2Ticks(TIMEOUT_INTERVAL_MS)
  /\ (ev = "timeout" /\ calls[1].was # "pending")
       => /\ calls = <<Call("cancel", reply)>>
          /\ Outstanding = 0
          /\ PollRestarted
\* The timeout elapsed after the request had completed.
C20_Witness ==
  /\ ev = "timeout"
  /\ calls[1].was = "done"
  /\ PollRestarted

====
